---- MODULE Spec2Model ----
(***************************************************************************)
(* Retro photobooth (App.tsx, services/gemini.ts, index.tsx).              *)
(*                                                                         *)
(* The App component's React state, the closures its callbacks capture,    *)
(* the interval timers, the camera requests, the caption request and the   *)
(* photo strip export, as one state machine.  Discrete UI events (clicks)  *)
(* are handled against the latest committed render, so a click handler is  *)
(* one atomic action; what a long-lived callback (the interval callback,   *)
(* the effect cleanup, the continuation after an await) captured when it   *)
(* was created is kept explicitly.                                         *)
(***************************************************************************)
EXTENDS Integers, Sequences, FiniteSets, TLC

\* ---------------------------------------------------------------- bounds
MaxCountdowns == 2      \* countdowns started in one run of the model
MaxFilter == 2          \* how many of FILTERS the user selects among
MaxCaptionLen == 4      \* length of the captions the export is given
MaxExportPhotos == 4    \* size of the collections the export is given

\* ------------------------------------------------------- program constants
CountdownStart == 3     \* let count = 3
IntervalMs == 1000      \* setInterval(..., 1000)
VideoW == 320           \* width: { ideal: 320 }
cols == 2
photoWidth == 300
photoHeight == 225
gap == 20
padding == 40
bottomLabelHeight == 150
DateOffset == 100       \* stripCanvas.height - 100
CaptionOffset == 60     \* stripCanvas.height - 60
WrapMargin == 60        \* stripCanvas.width - 60
LineHeight == 30        \* y += 30
CourierW == 14          \* advance width of a character of 'italic 24px "Courier New"'

\* FILTERS: name and cssFilter of each entry (label and class are markup only).
FILTERS ==
  << [name |-> "normal",    cssFilter |-> "none"],
     [name |-> "grayscale", cssFilter |-> "grayscale(100%) contrast(110%)"],
     [name |-> "sepia",     cssFilter |-> "sepia(80%) contrast(90%) brightness(110%)"],
     [name |-> "vintage",   cssFilter |-> "sepia(50%) contrast(125%) brightness(90%) saturate(80%)"],
     [name |-> "warm",      cssFilter |-> "sepia(30%) saturate(140%) hue-rotate(-10deg)"] >>

\* The filters the user selects among in the model: a prefix of FILTERS.
SelectableFilters == { FILTERS[i] : i \in 1..(IF MaxFilter < Len(FILTERS) THEN MaxFilter ELSE Len(FILTERS)) }

\* useState<MediaStream | null>(null): 0 is null, i > 0 the i-th getUserMedia stream.
NoStream == 0

VARIABLES
  mounted,              \* the App component is mounted (its refs are attached)
  cams,                 \* one entry per startCamera() call: the state of its request / stream
  stream,               \* React state `stream`
  videoSrc,             \* videoRef.current.srcObject
  videoWidth,           \* videoRef.current.videoWidth (0 until a frame source delivers metadata)
  photos,               \* React state `photos`
  selectedFilter,       \* React state `selectedFilter`
  countdown,            \* React state `countdown` (0 is null)
  isCapturing,          \* React state `isCapturing`
  timers,               \* active setInterval timers: each its closure's `count` and takePhoto
  now,                  \* Date.now()
  started,              \* history: number of countdowns started
  calls,                \* history: number of takePhoto() invocations
  thrown,               \* history: an exception escaped a callback
  apiKey,               \* process.env.REACT_API_KEY is set
  generatedCaption,     \* React state `generatedCaption`
  isGeneratingCaption,  \* React state `isGeneratingCaption`
  inflight,             \* generateContent calls awaiting the service
  outcomes,             \* history: how each caption request ended, in order
  charW,                \* measureText: advance width of one character of the caption font
  strip                 \* the last composite handed to the download sink

vars == << mounted, cams, stream, videoSrc, videoWidth, photos, selectedFilter, countdown,
           isCapturing, timers, now, started, calls, thrown, apiKey, generatedCaption,
           isGeneratingCaption, inflight, outcomes, charW, strip >>

camVars == << cams, stream, videoSrc, videoWidth >>
captureVars == << photos, selectedFilter, countdown, isCapturing, timers, now, started, calls,
                 thrown >>
captionVars == << generatedCaption, isGeneratingCaption, inflight, outcomes >>

\* ----------------------------------------------------------------- camera
\* useEffect(..., []): the cleanup closes over the `stream` of the render that
\* created the effect, the mount render, where `stream` is its initial null.
CleanupStream == NoStream

\* track.stop() on every track of the stream the cleanup sees.
StopTracks(s) == [i \in DOMAIN cams |-> IF i = s /\ cams[i] = "live" THEN "stopped" ELSE cams[i]]

\* getUserMedia resolves (first or fallback attempt) for startCamera call i:
\* setStream(mediaStream); if (videoRef.current) videoRef.current.srcObject = mediaStream.
\* A state update of an unmounted component is dropped and its refs are null.
CamResolve(i) ==
  /\ cams[i] \in {"trying", "fallback"}
  /\ cams' = [cams EXCEPT ![i] = "live"]
  /\ IF mounted
       THEN stream' = i /\ videoSrc' = i /\ videoWidth' = 0
       ELSE UNCHANGED << stream, videoSrc, videoWidth >>
  /\ UNCHANGED << mounted, captureVars, captionVars, apiKey, charW, strip >>

\* getUserMedia rejects: the first attempt falls back to the basic constraints,
\* the fallback's rejection is caught by the outer catch (console.error, alert).
CamReject(i) ==
  /\ cams[i] \in {"trying", "fallback"}
  /\ cams' = [cams EXCEPT ![i] = IF cams[i] = "trying" THEN "fallback" ELSE "failed"]
  /\ UNCHANGED << mounted, stream, videoSrc, videoWidth, captureVars, captionVars,
                  apiKey, charW, strip >>

\* The video element receives the metadata of its live srcObject.
LoadedMetadata ==
  /\ mounted
  /\ videoSrc # NoStream
  /\ cams[videoSrc] = "live"
  /\ videoWidth = 0
  /\ videoWidth' = VideoW
  /\ UNCHANGED << mounted, cams, stream, videoSrc, captureVars, captionVars,
                  apiKey, charW, strip >>

\* The component is torn down: the effect cleanup runs, the refs are detached.
Unmount ==
  /\ mounted
  /\ mounted' = FALSE
  /\ cams' = StopTracks(CleanupStream)
  /\ UNCHANGED << stream, videoSrc, videoWidth, captureVars, captionVars,
                  apiKey, charW, strip >>

\* ---------------------------------------------------------------- capture
\* Mutant: the id taken from a clock that ticks every ten seconds.
PhotoIdCoarse(t) == ToString(t \div (10 * IntervalMs))

\* Date.now().toString()
PhotoId(t) == ToString(t)

\* canvas.toDataURL('image/png') of the canvas takePhoto drew: a canvas of width 0
\* encodes as "data:,"; otherwise the frame, mirrored, under the filter's
\* cssFilter, with noise unless the filter is 'normal'.
ToDataURL(w, f, t) ==
  IF w = 0 THEN [kind |-> "data:,", css |-> "none", noise |-> FALSE, frame |-> 0]
  ELSE [kind |-> "png", css |-> f.cssFilter, noise |-> f.name # "normal", frame |-> t]

\* ctx.getImageData(0, 0, canvas.width, canvas.height) throws IndexSizeError when
\* the canvas is 0 wide; it is called only when the filter is not 'normal'.
GetImageDataThrows(w, f) == f.name # "normal" /\ w = 0

\* if (!videoRef.current || !canvasRef.current) return;  the refs are the DOM
\* elements of the mounted component.
RefsAttached == mounted

\* newPhoto, built at time t (Date.now()) under the closure's filter f.
newPhoto(f, t) ==
  [id |-> PhotoId(t), dataUrl |-> ToDataURL(videoWidth, f, t),
   timestamp |-> t, filter |-> f.name]

\* Mutant: setPhotos(prev => [newPhoto, ...prev])
PrependPhoto(prev, p) == << p >> \o prev

\* setPhotos(prev => [...prev, newPhoto])
AppendPhoto(prev, p) == Append(prev, p)

\* takePhoto() of the render whose selectedFilter was f: the next `photos` and
\* whether the call throws.
takePhotoThrows(f) == RefsAttached /\ GetImageDataThrows(videoWidth, f)
takePhotoPhotos(f, t) ==
  IF ~RefsAttached \/ takePhotoThrows(f) THEN photos ELSE AppendPhoto(photos, newPhoto(f, t))

\* Mutant: the isCapturing guard left out.
StartCountdownNeverBlocked == FALSE

\* if (isCapturing) return;
StartCountdownBlocked == isCapturing

\* startCountdown: the snap button's onClick.
startCountdown ==
  /\ mounted
  /\ now < CountdownStart * IntervalMs * MaxCountdowns
  /\ IF StartCountdownBlocked
       THEN UNCHANGED vars
       ELSE /\ isCapturing' = TRUE
            /\ countdown' = CountdownStart
            /\ timers' = Append(timers, [count |-> CountdownStart, filter |-> selectedFilter])
            /\ started' = started + 1
            /\ UNCHANGED << mounted, camVars, photos, selectedFilter, now, calls, thrown,
                            captionVars, apiKey, charW, strip >>

RemoveAt(s, k) == SubSeq(s, 1, k - 1) \o SubSeq(s, k + 1, Len(s))

\* The interval callback of timer k fires, IntervalMs after its previous firing.
Tick(k) ==
  /\ k \in DOMAIN timers
  /\ now' = now + IntervalMs
  /\ IF timers[k].count - 1 > 0
       THEN /\ timers' = [timers EXCEPT ![k].count = @ - 1]
            /\ countdown' = IF mounted THEN timers[k].count - 1 ELSE countdown
            /\ UNCHANGED << photos, isCapturing, calls, thrown >>
       ELSE \* clearInterval(timer); setCountdown(null); takePhoto(); setIsCapturing(false)
            /\ timers' = RemoveAt(timers, k)
            /\ countdown' = IF mounted THEN 0 ELSE countdown
            /\ calls' = calls + 1
            /\ photos' = IF mounted THEN takePhotoPhotos(timers[k].filter, now') ELSE photos
            /\ thrown' = (thrown \/ takePhotoThrows(timers[k].filter))
            /\ isCapturing' = IF mounted /\ ~takePhotoThrows(timers[k].filter)
                                THEN FALSE ELSE isCapturing
  /\ UNCHANGED << mounted, camVars, selectedFilter, started, captionVars, apiKey, charW, strip >>

\* onClick={() => setSelectedFilter(filter)}
SelectFilter(f) ==
  /\ mounted
  /\ f # selectedFilter
  /\ selectedFilter' = f
  /\ UNCHANGED << mounted, camVars, photos, countdown, isCapturing, timers, now, started,
                  calls, thrown, captionVars, apiKey, charW, strip >>

\* ---------------------------------------------------------------- caption
\* A string is the sequence of its characters.
EmptyString == << >>
Space == " "

\* "Error developing caption..."
ErrorCaption ==
  << "E","r","r","o","r"," ","d","e","v","e","l","o","p","i","n","g"," ",
     "c","a","p","t","i","o","n",".",".","." >>
\* "Vibe check passed."
DefaultCaption ==
  << "V","i","b","e"," ","c","h","e","c","k"," ","p","a","s","s","e","d","." >>

\* What response.text may be when generateContent resolves ("" stands for an
\* empty or missing text).
ServiceTexts == { EmptyString, << "a", "b", " ", "a" >> }

\* How the service call ends: generateContent rejects, or resolves with a text.
Outcomes == { [kind |-> "rejected", text |-> EmptyString] }
            \cup { [kind |-> "resolved", text |-> t] : t \in ServiceTexts }
NoKeyOutcome == [kind |-> "nokey", text |-> EmptyString]

\* Mutant: the body without its try/catch: a failure rejects the promise.
generateVintageCaptionNoCatch(o) ==
  IF o.kind \in {"nokey", "rejected"} THEN [ok |-> FALSE, text |-> EmptyString]
  ELSE [ok |-> TRUE, text |-> IF o.text # EmptyString THEN o.text ELSE DefaultCaption]

\* generateVintageCaption: the value its promise settles with.  ok = FALSE would
\* be a rejected promise; the try/catch around the whole body turns the missing
\* API key and the rejected call into the fallback string.
generateVintageCaption(o) ==
  IF o.kind \in {"nokey", "rejected"} THEN [ok |-> TRUE, text |-> ErrorCaption]
  ELSE [ok |-> TRUE, text |-> IF o.text # EmptyString THEN o.text ELSE DefaultCaption]

\* Mutant: the button rendered without the isGeneratingCaption branch.
CaptionButtonWhilePending ==
  Len(photos) > 0 /\ generatedCaption = EmptyString

\* The caption button is rendered: photos.length > 0, not isGeneratingCaption,
\* generatedCaption falsy.
CaptionButtonShown ==
  Len(photos) > 0 /\ ~isGeneratingCaption /\ generatedCaption = EmptyString

\* The continuation of handleGenerateCaption after the await, for result r:
\* setGeneratedCaption(caption); setIsGeneratingCaption(false).  A rejected
\* await leaves the async function by an unhandled rejection.
AfterAwait(r, pending) ==
  /\ generatedCaption' = IF mounted /\ r.ok THEN r.text ELSE generatedCaption
  /\ isGeneratingCaption' = IF mounted THEN (IF r.ok THEN FALSE ELSE pending)
                            ELSE isGeneratingCaption
  /\ thrown' = (thrown \/ ~r.ok)

\* handleGenerateCaption up to its await.  Without an API key getAiClient throws
\* before anything is awaited, so the promise is already settled and the
\* continuation runs before any other event.
handleGenerateCaption ==
  /\ mounted
  /\ CaptionButtonShown
  /\ Len(photos) # 0
  /\ IF apiKey
       THEN /\ isGeneratingCaption' = TRUE
            /\ inflight' = Append(inflight, [image |-> photos[Len(photos)].dataUrl])
            /\ outcomes' = outcomes
            /\ UNCHANGED << generatedCaption, thrown >>
       ELSE /\ AfterAwait(generateVintageCaption(NoKeyOutcome), TRUE)
            /\ outcomes' = Append(outcomes, NoKeyOutcome.kind)
            /\ inflight' = inflight
  /\ UNCHANGED << mounted, camVars, photos, selectedFilter, countdown, isCapturing, timers,
                  now, started, calls, apiKey, charW, strip >>

\* The service call of request k settles with outcome o.
Settle(k, o) ==
  /\ k \in DOMAIN inflight
  /\ inflight' = RemoveAt(inflight, k)
  /\ outcomes' = Append(outcomes, o.kind)
  /\ AfterAwait(generateVintageCaption(o), isGeneratingCaption)
  /\ UNCHANGED << mounted, camVars, photos, selectedFilter, countdown, isCapturing, timers,
                  now, started, calls, apiKey, charW, strip >>

\* clearPhotos: setPhotos([]); setGeneratedCaption('').  The RESET button is
\* rendered when photos.length > 0.
clearPhotos ==
  /\ mounted
  /\ Len(photos) > 0
  /\ photos' = << >>
  /\ generatedCaption' = EmptyString
  /\ UNCHANGED << mounted, camVars, selectedFilter, countdown, isCapturing, timers, now,
                  started, calls, thrown, apiKey, isGeneratingCaption, inflight, outcomes, charW, strip >>

\* ----------------------------------------------------------------- export
Concat(a, b) == a \o b

\* String.prototype.split(' '): the pieces between single spaces, empty pieces
\* included; the empty string splits into one empty piece.
RECURSIVE SplitFrom(_, _, _)
SplitFrom(str, i, cur) ==
  IF i > Len(str) THEN << cur >>
  ELSE IF str[i] = Space THEN << cur >> \o SplitFrom(str, i + 1, EmptyString)
  ELSE SplitFrom(str, i + 1, Append(cur, str[i]))
Split(str) == SplitFrom(str, 1, EmptyString)

\* ctx.measureText(text).width in the monospace caption font.
MeasureText(text) == Len(text) * charW

\* Math.ceil(a / b) for a >= 0, b > 0.
Ceil(a, b) == (a + b - 1) \div b

\* Mutant: the `|| 2` default left out.
RowsNoDefault(n) == Ceil(n, cols)

\* const rows = Math.ceil(photos.length / cols) || 2;
Rows(n) == IF Ceil(n, cols) # 0 THEN Ceil(n, cols) ELSE 2

contentWidth == (cols * photoWidth) + ((cols - 1) * gap)
contentHeight(rows) == (rows * photoHeight) + ((rows - 1) * gap)
CanvasWidth == contentWidth + (padding * 2)
CanvasHeight(n) == contentHeight(Rows(n)) + (padding * 2) + bottomLabelHeight

\* Mutant: the `n > 0` condition left out.
BreakBeforeAnyWord(testLine, i) == MeasureText(testLine) > CanvasWidth - WrapMargin

\* if (metrics.width > stripCanvas.width - 60 && n > 0); n is the 0-based index
\* of the word, i its 1-based index.
BreakBefore(testLine, i) == MeasureText(testLine) > CanvasWidth - WrapMargin /\ i - 1 > 0

\* The word-wrap loop from word i on: `line` is the line being accumulated, y the
\* vertical cursor, out the fillText calls made so far (text, y).
RECURSIVE WrapFrom(_, _, _, _, _)
WrapFrom(words, i, line, y, out) ==
  IF i > Len(words) THEN Append(out, [text |-> line, y |-> y])
  ELSE LET testLine == Concat(Concat(line, words[i]), << Space >>)
       IN IF BreakBefore(testLine, i)
            THEN WrapFrom(words, i + 1, Concat(words[i], << Space >>), y + LineHeight,
                          Append(out, [text |-> line, y |-> y]))
            ELSE WrapFrom(words, i + 1, testLine, y, out)

\* if (generatedCaption) { ... }: the caption lines drawn on a canvas of height h.
CaptionLines(caption, h) ==
  IF caption = EmptyString THEN << >>
  ELSE WrapFrom(Split(caption), 1, EmptyString, h - CaptionOffset, << >>)

\* photos.forEach((photo, index) => ...): the cell of the photo at 0-based index.
\* `img.src = photo.dataUrl` starts an asynchronous load and drawImage follows at
\* once, with no onload or decode() awaited: drawImage paints nothing for an image
\* that is not completely available, and the image is available at that point
\* only if the browser already holds it decoded (the PhotoGrid <img> of the same
\* URL, itself loading="lazy").  `decoded` is that outcome.
Cell(index, photo, decoded) ==
  LET col == index % cols
      row == index \div cols
  IN [col |-> col, row |-> row,
      x |-> padding + (col * (photoWidth + gap)),
      y |-> padding + (row * (photoHeight + gap)),
      src |-> photo.dataUrl,
      drawn |-> decoded]

NoStrip ==
  [downloaded |-> FALSE, rows |-> 0, width |-> 0, height |-> 0, cells |-> << >>,
   dateY |-> 0, lines |-> << >>]

\* downloadPhotoStrip: the composite built from `photos` and `generatedCaption`
\* and handed to link.click(); `ready` is the set of indices whose image is
\* decoded at its drawImage call.
Composite(ready) ==
  [downloaded |-> TRUE,
   rows |-> Rows(Len(photos)),
   width |-> CanvasWidth,
   height |-> CanvasHeight(Len(photos)),
   cells |-> [i \in 1..Len(photos) |-> Cell(i - 1, photos[i], i \in ready)],
   dateY |-> CanvasHeight(Len(photos)) - DateOffset,
   lines |-> CaptionLines(generatedCaption, CanvasHeight(Len(photos)))]

\* The export reads `photos` and `generatedCaption` and writes nothing but the
\* download, so it is checked on its own (SpecExport) from every collection and
\* caption, empty ones included.
downloadPhotoStrip ==
  /\ \E ready \in SUBSET (1..Len(photos)) : strip' = Composite(ready)
  /\ UNCHANGED << mounted, camVars, captureVars, captionVars, apiKey, charW >>

\* ---------------------------------------------------------- specifications
\* Widths (in canvas units) of one character under the fonts the model measures with.
CharWidths == { 100, 200, 320 }

\* After the first commit: state at its useState initial values; startCamera has
\* been called once, or twice where React.StrictMode re-runs the mount effect
\* (cleanup, then the effect again) in a development build.
Init ==
  /\ mounted = TRUE
  /\ cams \in { << "trying" >>, << "trying", "trying" >> }
  /\ stream = NoStream
  /\ videoSrc = NoStream
  /\ videoWidth = 0
  /\ photos = << >>
  /\ selectedFilter = FILTERS[1]
  /\ countdown = 0
  /\ isCapturing = FALSE
  /\ timers = << >>
  /\ now = 0
  /\ started = 0
  /\ calls = 0
  /\ thrown = FALSE
  /\ apiKey \in BOOLEAN
  /\ generatedCaption = EmptyString
  /\ isGeneratingCaption = FALSE
  /\ inflight = << >>
  /\ outcomes = << >>
  /\ charW = CourierW
  /\ strip = NoStrip

Next ==
  \/ \E i \in DOMAIN cams : CamResolve(i)
  \/ \E i \in DOMAIN cams : CamReject(i)
  \/ LoadedMetadata
  \/ Unmount
  \/ startCountdown
  \/ \E k \in DOMAIN timers : Tick(k)
  \/ \E f \in SelectableFilters : SelectFilter(f)
  \/ handleGenerateCaption
  \/ \E k \in DOMAIN inflight : \E o \in Outcomes : Settle(k, o)
  \/ clearPhotos

Spec == Init /\ [][Next]_vars

\* A generateContent call settles: the pending promise resolves or rejects.
ServiceSettles == \E k \in DOMAIN inflight : \E o \in Outcomes : Settle(k, o)

FairSpec == Spec /\ WF_vars(ServiceSettles)

\* The export applied to the collections and captions it may be given.
Alphabet == { "a", "b", Space }
\* "a a a a a a a a a": nine words of one character.
NineWords == << "a"," ","a"," ","a"," ","a"," ","a"," ","a"," ","a"," ","a"," ","a" >>
Captions == (UNION { [1..n -> Alphabet] : n \in 0..MaxCaptionLen }) \cup { NineWords }

\* A collection of n captures, one per countdown, each of a live frame.
CapturedAt(i) == i * CountdownStart * IntervalMs
Collection(n) ==
  [i \in 1..n |-> [id |-> PhotoId(CapturedAt(i)),
                   dataUrl |-> ToDataURL(VideoW, FILTERS[1], CapturedAt(i)),
                   timestamp |-> CapturedAt(i), filter |-> FILTERS[1].name]]

InitExport ==
  /\ mounted = TRUE
  /\ cams = << "live" >>
  /\ stream = 1
  /\ videoSrc = 1
  /\ videoWidth = VideoW
  /\ \E n \in 0..MaxExportPhotos :
       /\ photos = Collection(n)
       /\ now = CapturedAt(n)
       /\ started = n
       /\ calls = n
  /\ selectedFilter = FILTERS[1]
  /\ countdown = 0
  /\ isCapturing = FALSE
  /\ timers = << >>
  /\ thrown = FALSE
  /\ apiKey = TRUE
  /\ generatedCaption \in Captions
  /\ isGeneratingCaption = FALSE
  /\ inflight = << >>
  /\ outcomes = << >>
  /\ charW \in CharWidths
  /\ strip = NoStrip

NextExport == downloadPhotoStrip

SpecExport == InitExport /\ [][NextExport]_vars

\* ------------------------------------------------------------------ claims
Max(a, b) == IF a >= b THEN a ELSE b

\* C4: for every number N of captured images the export reserves
\* max(2, ceil(N / 2)) rows, and the canvas height is computed from that row
\* count as rows*225 + (rows-1)*20 + 2*40 + 150.
C4_AtLeastTwoRows ==
  strip.downloaded =>
    LET rows == Max(2, Ceil(Len(photos), 2))
    IN /\ strip.rows = rows
       /\ strip.height = rows * 225 + (rows - 1) * 20 + 2 * 40 + 150

\* C5: an export of the empty collection runs to completion and triggers a
\* download, and its canvas height is that of the 2-row reservation, the height
\* of an export of 3 or 4 images.
C5_EmptyExport ==
  Len(photos) = 0 =>
    /\ ENABLED downloadPhotoStrip
    /\ strip.downloaded =>
         /\ strip.rows = 2
         /\ strip.height = 2 * 225 + 20 + 2 * 40 + 150
         /\ strip.height = CanvasHeight(3)
         /\ strip.height = CanvasHeight(4)
         /\ strip.cells = << >>

C5_Witness == Len(photos) = 0 /\ strip.downloaded /\ strip.height = 700

\* The words of a committed line "w1 w2 ... wk ": every word is followed by one space.
LineWords(text) ==
  IF text = EmptyString THEN << >> ELSE Split(SubSeq(text, 1, Len(text) - 1))

\* words[1..k], each followed by one space.
RECURSIVE Spaced(_, _)
Spaced(words, k) ==
  IF k = 0 THEN EmptyString ELSE Spaced(words, k - 1) \o words[k] \o << Space >>

RECURSIVE AllWords(_, _)
AllWords(lines, j) ==
  IF j = 0 THEN << >> ELSE AllWords(lines, j - 1) \o LineWords(lines[j].text)

\* C8: the committed lines hold exactly the caption's words, whole and in order,
\* each on one line; the line breaks before a word exactly when the candidate
\* line with that word is wider than (canvas width - 60) and the current line
\* holds at least one word; each break moves the cursor down by 30; the last
\* line is committed after the last word.  Nine one-character words of which
\* three fit a line give three lines of three words.
C8_GreedyWrap ==
  (strip.downloaded /\ generatedCaption # EmptyString) =>
    LET lines == strip.lines
        limit == strip.width - 60
        W(j) == LineWords(lines[j].text)
    IN /\ Len(lines) >= 1
       /\ AllWords(lines, Len(lines)) = Split(generatedCaption)
       /\ \A j \in 1..Len(lines) :
            /\ Len(W(j)) >= 1
            /\ lines[j].text = Spaced(W(j), Len(W(j)))
            \* no break before a word that is not the first of its line: it fitted
            /\ \A k \in 2..Len(W(j)) : Len(Spaced(W(j), k)) * charW <= limit
            \* a break before the first word of a later line: it did not fit
            /\ j > 1 => (Len(lines[j - 1].text) + Len(W(j)[1]) + 1) * charW > limit
            /\ j > 1 => lines[j].y = lines[j - 1].y + 30
       /\ (generatedCaption = NineWords /\ charW = 100) =>
            /\ Len(lines) = 3
            /\ \A j \in 1..3 : Len(W(j)) = 3

C8_Witness ==
  /\ strip.downloaded
  /\ generatedCaption = NineWords
  /\ charW = 100
  /\ Len(strip.lines) = 3

\* A frame source is available: the mounted video element has a live stream's frames.
FrameAvailable == mounted /\ videoWidth > 0

\* C1: one invocation of capture with a frame source available appends exactly
\* one record at the end of the collection: the length grows by 1 and every
\* earlier record keeps its position and content, whatever filter is selected.
C1_CaptureAppendsOne ==
  [][(calls' = calls + 1 /\ FrameAvailable) =>
       /\ Len(photos') = Len(photos) + 1
       /\ SubSeq(photos', 1, Len(photos)) = photos
       /\ photos'[Len(photos')].dataUrl.kind = "png"]_vars

C1_Witness ==
  /\ calls = 2
  /\ Len(photos) = 2
  /\ photos[1].dataUrl.kind = "png"
  /\ photos[2].dataUrl.kind = "png"
  /\ photos[2].filter # "normal"

\* C2: with no frame source available, invoking capture is a no-op: no record
\* is appended, the collection is unchanged and no error escapes the call.
C2_NoFrameNoOp ==
  [][(calls' = calls + 1 /\ ~FrameAvailable) =>
       (photos' = photos /\ thrown' = thrown)]_vars

\* C3: at most one countdown timer is active at a time; a startCountdown request
\* made while a countdown is in progress starts no timer and leaves the displayed
\* count unchanged; each started countdown leads to at most one capture.
C3_NoReentrantCountdown ==
  /\ [](Len(timers) <= 1)
  /\ [](calls + Len(timers) = started)
  /\ [](Len(photos) <= calls)
  /\ [][(Len(timers) > 0 /\ now' = now) =>
          (timers' = timers /\ countdown' = countdown /\ started' = started)]_vars

C3_Witness ==
  /\ mounted
  /\ isCapturing
  /\ Len(timers) = 1
  /\ countdown = 2
  /\ started = 2
  /\ ENABLED startCountdown

\* C6: a caption request whose call fails (no API key, rejected service call)
\* settles with the fixed non-empty fallback string stored as the caption, no
\* error leaves handleGenerateCaption, and the pending flag is eventually
\* cleared (for as long as the component exists to hold it).
C6_CaptionFailureAbsorbed ==
  /\ [][(Len(outcomes') = Len(outcomes) + 1
          /\ outcomes'[Len(outcomes')] \in {"nokey", "rejected"}) =>
          /\ thrown' = thrown
          /\ mounted => /\ generatedCaption' = ErrorCaption
                        /\ generatedCaption' # EmptyString
                        /\ ~isGeneratingCaption']_vars
  /\ (isGeneratingCaption ~> (~isGeneratingCaption \/ ~mounted))

C6_Witness ==
  /\ mounted
  /\ Len(outcomes) > 0
  /\ outcomes[Len(outcomes)] = "rejected"
  /\ generatedCaption = ErrorCaption
  /\ ~isGeneratingCaption

\* C7: whenever the capture collection is empty the stored caption is empty,
\* also when a request pending at the reset settles afterwards.
C7_EmptyCollectionNoCaption ==
  Len(photos) = 0 => generatedCaption = EmptyString

\* C9: the ids of the records in the capture collection are pairwise distinct.
C9_DistinctIds ==
  \A i, j \in DOMAIN photos : i # j => photos[i].id # photos[j].id

C9_Witness == Len(photos) = 2 /\ photos[1].timestamp # photos[2].timestamp

\* C10: when the component is torn down, every track of every acquired stream
\* is stopped: no acquired stream is live after the unmount.
C10_StreamsReleased ==
  [][(mounted /\ ~mounted') => \A i \in DOMAIN cams : cams'[i] # "live"]_vars

\* C11: a capture run at the end of a countdown applies the filter expression of,
\* and stores the name of, the filter selected at the moment the capture runs,
\* also when the selection changed between the start of the countdown and its
\* last tick.
C11_CaptureUsesCurrentFilter ==
  [][(calls' = calls + 1 /\ FrameAvailable) =>
       /\ Len(photos') = Len(photos) + 1
       /\ photos'[Len(photos')].filter = selectedFilter.name
       /\ photos'[Len(photos')].dataUrl.css = selectedFilter.cssFilter]_vars

\* C12: in an export every captured image i (0-based) has its pixels drawn into
\* its own cell, column i mod 2, row floor(i / 2), before the composite is
\* encoded and downloaded: no cell of the downloaded strip misses its image.
C12_EveryImageDrawn ==
  strip.downloaded =>
    /\ Len(strip.cells) = Len(photos)
    /\ \A i \in 1..Len(strip.cells) :
         /\ strip.cells[i].col = (i - 1) % 2
         /\ strip.cells[i].row = (i - 1) \div 2
         /\ strip.cells[i].src = photos[i].dataUrl
         /\ strip.cells[i].drawn

\* A step that starts a caption request: one more request in flight, or (with
\* no API key) one more request settled at once.
CaptionRequestStarts ==
  Len(inflight') + Len(outcomes') > Len(inflight) + Len(outcomes)

\* C13: at most one caption request is outstanding at any time; a request is
\* started only when the collection is non-empty, no request is pending and the
\* stored caption is empty; while a request is pending no second one can be
\* started, also after a reset and a new capture.
C13_OneCaptionRequest ==
  /\ [](Len(inflight) <= 1)
  /\ [](Len(inflight) > 0 => ~ENABLED handleGenerateCaption)
  /\ [][CaptionRequestStarts =>
          /\ Len(photos) > 0
          /\ inflight = << >>
          /\ ~isGeneratingCaption
          /\ generatedCaption = EmptyString]_vars

C13_Witness ==
  /\ mounted
  /\ Len(inflight) = 1
  /\ Len(photos) = 1
  /\ photos[1].dataUrl # inflight[1].image
  /\ generatedCaption = EmptyString
  /\ ~ENABLED handleGenerateCaption

====
